---------------------------- MODULE Spec2Model ----------------------------
(***************************************************************************)
(* Model of the deterministic logic of mastra-inquiry:                     *)
(*   - the Cloudflare worker entry point (CORS origin resolution, header   *)
(*     application, preflight handling),                                   *)
(*   - the framework-side CORS resolver of src/mastra/index.ts,            *)
(*   - the keyword scorer analyzePresentation of the tcm-insight tool.     *)
(*                                                                         *)
(* A JavaScript string is a sequence of one-character strings; null and    *)
(* undefined are the value `null`, which is no string.                     *)
(***************************************************************************)
EXTENDS Integers, Sequences, FiniteSets, TLC

VARIABLES
    pc,              \* position of the modelled call
    requestOrigin,   \* resolver input: the request's Origin (string or null)
    allowedOrigins,  \* resolver input: the allow-list array
    resolved,        \* result of the worker's resolveCorsOrigin
    resolvedServer,  \* result of index.ts's resolveCorsOrigin
    request,         \* worker: the incoming Request (method, Origin header)
    env,             \* worker: the environment's ALLOWED_ORIGINS (string or null)
    upstreamCalls,   \* worker: number of calls of mastraHandler.fetch
    upstream,        \* worker: the Response mastraHandler.fetch resolved with
    response,        \* worker: the Response the fetch handler returned
    context,         \* tool: the intake given to analyzePresentation
    analysis         \* tool: the object analyzePresentation returned

resolverVars == <<requestOrigin, allowedOrigins, resolved, resolvedServer>>
workerVars == <<request, env, upstreamCalls, upstream, response>>
toolVars == <<context, analysis>>
vars == <<pc, resolverVars, workerVars, toolVars>>

-----------------------------------------------------------------------------
(* Values and strings *)

\* null / undefined: a value that is no string (its element is no character)
null == <<"null">>

\* a result not computed yet
pending == <<"pending">>

\* JavaScript truthiness of a string-or-null value: null and "" are falsy
Truthy(v) == v # null /\ v # <<>>

\* all strings over chars of length 0..n
RECURSIVE StringsUpTo(_, _)
StringsUpTo(chars, n) ==
    IF n = 0 THEN {<<>>}
    ELSE LET shorter == StringsUpTo(chars, n - 1)
         IN  shorter \cup {Append(s, c) : s \in shorter, c \in chars}

\* String.prototype.includes for a one-character needle
IncludesChar(s, c) == \E i \in 1..Len(s) : s[i] = c

\* String.prototype.split(sep) for a one-character separator
RECURSIVE Split(_, _)
Split(s, sep) ==
    IF ~IncludesChar(s, sep) THEN <<s>>
    ELSE LET i == CHOOSE k \in 1..Len(s) :
                      s[k] = sep /\ \A j \in 1..(k - 1) : s[j] # sep
         IN  <<SubSeq(s, 1, i - 1)>> \o Split(SubSeq(s, i + 1, Len(s)), sep)

\* Array.prototype.join(sep)
RECURSIVE Join(_, _)
Join(parts, sep) ==
    IF Len(parts) = 0 THEN <<>>
    ELSE IF Len(parts) = 1 THEN parts[1]
    ELSE parts[1] \o sep \o Join(Tail(parts), sep)

-----------------------------------------------------------------------------
(* Regular expressions: the subset of ECMAScript the worker builds *)

\* the character class of escapeRegExp: [.*+?^${}()|[\]\\]
RegExpSpecials ==
    {".", "*", "+", "?", "^", "$", "{", "}", "(", ")", "|", "[", "]", "\\"}

\* characters `.` does not match (no s flag): the line terminators
LineTerminators == {"\n", "\r"}

\* mutant of escapeRegExp: nothing escaped
escapeRegExpNone(value) == value

\* value.replace(/[.*+?^${}()|[\]\\]/g, '\\$&')
RECURSIVE escapeRegExp(_)
escapeRegExp(value) ==
    IF Len(value) = 0 THEN <<>>
    ELSE (IF Head(value) \in RegExpSpecials
          THEN <<"\\", Head(value)>> ELSE <<Head(value)>>)
         \o escapeRegExp(Tail(value))

\* the source of the RegExp wildcardToRegExp(pattern) builds
wildcardToRegExp(pattern) ==
    LET parts   == Split(pattern, "*")
        escaped == Join([i \in 1..Len(parts) |-> escapeRegExp(parts[i])],
                        <<".", "*">>)
    IN  <<"^">> \o escaped \o <<"$">>

\* width of the atom starting at source[i]: an escape \c, or one character
AtomWidth(source, i) == IF source[i] = "\\" /\ i < Len(source) THEN 2 ELSE 1

\* whether the atom starting at source[i] matches character c
AtomMatches(source, i, c) ==
    IF source[i] = "\\" /\ i < Len(source) THEN c = source[i + 1]
    ELSE IF source[i] = "." THEN c \notin LineTerminators
    ELSE c = source[i]

\* whether source[i..] matches a prefix of input[j..] (backtracking matcher)
RECURSIVE MatchHere(_, _, _, _)
MatchHere(source, i, input, j) ==
    IF i > Len(source) THEN TRUE
    ELSE IF source[i] = "^" THEN j = 1 /\ MatchHere(source, i + 1, input, j)
    ELSE IF source[i] = "$"
         THEN j = Len(input) + 1 /\ MatchHere(source, i + 1, input, j)
    ELSE LET w == AtomWidth(source, i)
         IN  IF i + w <= Len(source) /\ source[i + w] = "*"
             THEN \E k \in 0..(Len(input) + 1 - j) :
                    /\ \A m \in j..(j + k - 1) : AtomMatches(source, i, input[m])
                    /\ MatchHere(source, i + w + 1, input, j + k)
             ELSE /\ j <= Len(input)
                  /\ AtomMatches(source, i, input[j])
                  /\ MatchHere(source, i + w, input, j + 1)

\* RegExp.prototype.test: a match starting anywhere in the input
RegExpTest(source, input) ==
    \E start \in 1..(Len(input) + 1) : MatchHere(source, 1, input, start)

-----------------------------------------------------------------------------
(* Worker entry point: origin resolution *)

\* value.replace(/\/$/, ''): one trailing slash removed
StripTrailingSlash(value) ==
    IF Len(value) > 0 /\ value[Len(value)] = "/"
    THEN SubSeq(value, 1, Len(value) - 1) ELSE value

\* mutant of matchesOrigin: no wildcard patterns, "*" and equality only
matchesOriginExact(pattern, origin) ==
    pattern = <<"*">> \/ pattern = origin

\* mutant of matchesOrigin: a "*" takes in no ".", as if compiled to [^.]*
matchesOriginOneLabel(pattern, origin) ==
    IF pattern = <<"*">> THEN TRUE
    ELSE IF IncludesChar(pattern, "*")
         THEN /\ RegExpTest(wildcardToRegExp(pattern), origin)
              /\ Cardinality({i \in 1..Len(origin) : origin[i] = "."})
                   = Cardinality({i \in 1..Len(pattern) : pattern[i] = "."})
    ELSE pattern = origin

matchesOrigin(pattern, origin) ==
    IF pattern = <<"*">> THEN TRUE
    ELSE IF IncludesChar(pattern, "*")
         THEN RegExpTest(wildcardToRegExp(pattern), origin)
    ELSE pattern = origin

\* mutant of resolveCorsOrigin: the matching entry returned, not the origin
resolveCorsOriginEchoEntry(origin, allowed) ==
    IF ~Truthy(origin)
    THEN (IF Len(allowed) > 0 THEN allowed[1] ELSE <<"*">>)
    ELSE LET normalized == StripTrailingSlash(origin)
         IN  IF Len(allowed) = 0 THEN normalized
             ELSE IF \E i \in 1..Len(allowed) : matchesOrigin(allowed[i], normalized)
                  THEN allowed[CHOOSE i \in 1..Len(allowed) :
                                   matchesOrigin(allowed[i], normalized)]
             ELSE null

\* mutant of resolveCorsOrigin: no origin, no allowed origin
resolveCorsOriginNullWhenAbsent(origin, allowed) ==
    IF ~Truthy(origin) THEN null
    ELSE LET normalized == StripTrailingSlash(origin)
         IN  IF Len(allowed) = 0 THEN normalized
             ELSE IF \E i \in 1..Len(allowed) : matchesOrigin(allowed[i], normalized)
                  THEN normalized
             ELSE null

\* mutant of resolveCorsOrigin: the empty allow-list allows nothing
resolveCorsOriginStrict(origin, allowed) ==
    IF ~Truthy(origin)
    THEN (IF Len(allowed) > 0 THEN allowed[1] ELSE <<"*">>)
    ELSE LET normalized == StripTrailingSlash(origin)
         IN  IF \E i \in 1..Len(allowed) : matchesOrigin(allowed[i], normalized)
             THEN normalized
             ELSE null

resolveCorsOrigin(origin, allowed) ==
    IF ~Truthy(origin)
    THEN (IF Len(allowed) > 0 THEN allowed[1] ELSE <<"*">>)
    ELSE LET normalized == StripTrailingSlash(origin)
         IN  IF Len(allowed) = 0 THEN normalized
             ELSE IF \E i \in 1..Len(allowed) : matchesOrigin(allowed[i], normalized)
                  THEN normalized
             ELSE null

-----------------------------------------------------------------------------
(* Framework-side resolver (src/mastra/index.ts) *)

\* mutant of originMatchers: an entry with a "*" inside is compared literally
originMatchersLiteral(allowed, i, origin) ==
    allowed[i] = <<"*">> \/ origin = allowed[i]

\* originMatchers[i] applied to a request origin
originMatchers(allowed, i, origin) ==
    IF allowed[i] = <<"*">> THEN TRUE
    ELSE IF IncludesChar(allowed[i], "*")
         THEN RegExpTest(wildcardToRegExp(allowed[i]), origin)
    ELSE origin = allowed[i]

resolveCorsOriginServer(origin, allowed) ==
    IF ~Truthy(origin)
    THEN (IF Len(allowed) > 0 THEN allowed[1] ELSE <<"*">>)
    ELSE IF Len(allowed) = 0 THEN origin
    ELSE IF \E i \in 1..Len(allowed) : originMatchers(allowed, i, origin)
         THEN origin
    ELSE null

-----------------------------------------------------------------------------
(* Worker entry point: configuration parsing *)

\* white space removed by String.prototype.trim (those the model's inputs use)
WhiteSpace == {" ", "\t", "\n", "\r"}

RECURSIVE TrimStart(_)
TrimStart(s) ==
    IF Len(s) > 0 /\ Head(s) \in WhiteSpace THEN TrimStart(Tail(s)) ELSE s

RECURSIVE TrimEnd(_)
TrimEnd(s) ==
    IF Len(s) > 0 /\ s[Len(s)] \in WhiteSpace
    THEN TrimEnd(SubSeq(s, 1, Len(s) - 1)) ELSE s

Trim(s) == TrimEnd(TrimStart(s))

\* Array.prototype.filter(Boolean) on an array of strings and nulls
RECURSIVE FilterBoolean(_)
FilterBoolean(a) ==
    IF Len(a) = 0 THEN <<>>
    ELSE (IF Truthy(Head(a)) THEN <<Head(a)>> ELSE <<>>) \o FilterBoolean(Tail(a))

splitAllowedOrigins(raw) ==
    IF ~Truthy(raw) THEN <<>>
    ELSE LET parts == Split(raw, ",")
         IN  FilterBoolean([i \in 1..Len(parts) |->
                                StripTrailingSlash(Trim(parts[i]))])

-----------------------------------------------------------------------------
(* Worker entry point: headers and the fetch handler *)

ALLOW_METHODS ==
    <<<<"G", "E", "T">>, <<"P", "O", "S", "T">>, <<"P", "U", "T">>,
      <<"P", "A", "T", "C", "H">>, <<"D", "E", "L", "E", "T", "E">>,
      <<"O", "P", "T", "I", "O", "N", "S">>>>

ALLOW_HEADERS ==
    <<<<"C", "o", "n", "t", "e", "n", "t", "-", "T", "y", "p", "e">>,
      <<"A", "u", "t", "h", "o", "r", "i", "z", "a", "t", "i", "o", "n">>,
      <<"x", "-", "m", "a", "s", "t", "r", "a", "-", "c", "l", "i", "e", "n", "t", "-", "t", "y", "p", "e">>,
      <<"x", "-", "r", "e", "q", "u", "e", "s", "t", "-", "i", "d">>>>

EXPOSE_HEADERS ==
    <<<<"C", "o", "n", "t", "e", "n", "t", "-", "L", "e", "n", "g", "t", "h">>,
      <<"X", "-", "R", "e", "q", "u", "e", "s", "t", "e", "d", "-", "W", "i", "t", "h">>,
      <<"x", "-", "r", "e", "q", "u", "e", "s", "t", "-", "i", "d">>>>

\* the header names the model's Headers objects can hold
HeaderNames ==
    {"Access-Control-Allow-Origin", "Vary", "Access-Control-Allow-Methods",
     "Access-Control-Allow-Headers", "Access-Control-Expose-Headers",
     "Access-Control-Max-Age", "Content-Type"}

\* new Headers(): no header present
NewHeaders == [h \in HeaderNames |-> null]

HeadersHas(headers, name) == headers[name] # null

HeadersSet(headers, name, value) == [headers EXCEPT ![name] = value]

\* Number.prototype.toString for a non-negative integer
RECURSIVE NumberToString(_)
NumberToString(n) ==
    LET digit == <<"0", "1", "2", "3", "4", "5", "6", "7", "8", "9">>[(n % 10) + 1]
    IN  IF n < 10 THEN <<digit>> ELSE Append(NumberToString(n \div 10), digit)

\* mutant of applyCorsHeaders: Vary: Origin set on every response
applyCorsHeadersVaryAlways(headers, origin) ==
    LET h1 == IF Truthy(origin)
              THEN HeadersSet(headers, "Access-Control-Allow-Origin", origin)
              ELSE IF ~HeadersHas(headers, "Access-Control-Allow-Origin")
                   THEN HeadersSet(headers, "Access-Control-Allow-Origin", <<"*">>)
              ELSE headers
        h2 == HeadersSet(h1, "Vary", <<"O", "r", "i", "g", "i", "n">>)
        h3 == HeadersSet(h2, "Access-Control-Allow-Methods",
                         Join(ALLOW_METHODS, <<",", " ">>))
        h4 == HeadersSet(h3, "Access-Control-Allow-Headers",
                         Join(ALLOW_HEADERS, <<",", " ">>))
    IN  HeadersSet(h4, "Access-Control-Expose-Headers",
                   Join(EXPOSE_HEADERS, <<",", " ">>))

applyCorsHeaders(headers, origin) ==
    LET h1 == IF Truthy(origin)
              THEN HeadersSet(HeadersSet(headers, "Access-Control-Allow-Origin", origin),
                              "Vary", <<"O", "r", "i", "g", "i", "n">>)
              ELSE IF ~HeadersHas(headers, "Access-Control-Allow-Origin")
                   THEN HeadersSet(headers, "Access-Control-Allow-Origin", <<"*">>)
              ELSE headers
        h2 == HeadersSet(h1, "Access-Control-Allow-Methods",
                         Join(ALLOW_METHODS, <<",", " ">>))
        h3 == HeadersSet(h2, "Access-Control-Allow-Headers",
                         Join(ALLOW_HEADERS, <<",", " ">>))
    IN  HeadersSet(h3, "Access-Control-Expose-Headers",
                   Join(EXPOSE_HEADERS, <<",", " ">>))

\* the origin the fetch handler resolves for the request at hand
FetchOrigin ==
    resolveCorsOrigin(request.origin, splitAllowedOrigins(env))

\* mutant of PreflightResponse: no Access-Control-Max-Age
PreflightResponseNoMaxAge ==
    [status |-> 204, statusText |-> <<>>, body |-> null,
     headers |-> applyCorsHeaders(NewHeaders, FetchOrigin)]

\* the Response of the OPTIONS branch
PreflightResponse ==
    LET headers == HeadersSet(applyCorsHeaders(NewHeaders, FetchOrigin),
                              "Access-Control-Max-Age",
                              NumberToString(24 * 60 * 60))
    IN  [status |-> 204, statusText |-> <<>>, body |-> null, headers |-> headers]

\* mutant of ForwardedResponse: Access-Control-Max-Age set as on a preflight
ForwardedResponseMaxAge(up) ==
    [status     |-> up.status,
     statusText |-> up.statusText,
     body       |-> up.body,
     headers    |-> HeadersSet(applyCorsHeaders(up.headers, FetchOrigin),
                               "Access-Control-Max-Age",
                               NumberToString(24 * 60 * 60))]

\* the Response built around the upstream's
ForwardedResponse(up) ==
    [status     |-> up.status,
     statusText |-> up.statusText,
     body       |-> up.body,
     headers    |-> applyCorsHeaders(up.headers, FetchOrigin)]

-----------------------------------------------------------------------------
(* tcm-insight tool: catalog *)

(* A character outside ASCII is written uXXXX, its code point.  The fields  *)
(* of a pattern the tool only copies (name, description, classicalFormula,  *)
(* keyHerbs, acupoints, the lifestyle entries, the red-flag messages) are   *)
(* opaque strings: the name by the English part of the source's name, the  *)
(* others by their place in the source.  The source's lifestyle entries    *)
(* are pairwise distinct, and so are their designators.                    *)

windColdKeywords ==
    <<<<"c", "h", "i", "l", "l">>,
      <<"c", "h", "i", "l", "l", "s">>,
      <<"a", "v", "e", "r", "s", "i", "o", "n", " ", "t", "o", " ", "w", "i",
        "n", "d">>,
      <<"s", "t", "i", "f", "f", " ", "n", "e", "c", "k">>,
      <<"b", "o", "d", "y", " ", "a", "c", "h", "e">>,
      <<"u65e0", "u6c57">>,
      <<"u6076", "u5bd2">>,
      <<"u5934", "u75db">>,
      <<"c", "l", "e", "a", "r", " ", "m", "u", "c", "u", "s">>,
      <<"s", "n", "e", "e", "z", "i", "n", "g">>>>

windHeatKeywords ==
    <<<<"s", "o", "r", "e", " ", "t", "h", "r", "o", "a", "t">>,
      <<"t", "h", "r", "o", "a", "t", " ", "p", "a", "i", "n">>,
      <<"r", "e", "d", " ", "e", "y", "e", "s">>,
      <<"y", "e", "l", "l", "o", "w", " ", "m", "u", "c", "u", "s">>,
      <<"f", "e", "v", "e", "r">>,
      <<"u53d1", "u70ed">>,
      <<"u54bd", "u5589", "u75db">>,
      <<"u54bd", "u75db">>,
      <<"u53e3", "u6e34">>>>

qiDeficiencyKeywords ==
    <<<<"f", "a", "t", "i", "g", "u", "e">>,
      <<"l", "o", "w", " ", "a", "p", "p", "e", "t", "i", "t", "e">>,
      <<"l", "o", "o", "s", "e", " ", "s", "t", "o", "o", "l">>,
      <<"s", "p", "o", "n", "t", "a", "n", "e", "o", "u", "s", " ", "s", "w",
        "e", "a", "t">>,
      <<"t", "i", "r", "e", "d">>,
      <<"u4e4f", "u529b">>,
      <<"u98df", "u6b32", "u5dee">>,
      <<"u5927", "u4fbf", "u7a00">>,
      <<"u6015", "u98ce">>>>

liverQiStagnationKeywords ==
    <<<<"s", "t", "r", "e", "s", "s">>,
      <<"i", "r", "r", "i", "t", "a", "b", "i", "l", "i", "t", "y">>,
      <<"p", "m", "s">>,
      <<"d", "i", "s", "t", "e", "n", "t", "i", "o", "n">>,
      <<"u80c0", "u75db">>,
      <<"u60c5", "u7eea">>,
      <<"u80f8", "u95f7">>,
      <<" ", "s", "i", "g", "h", " ">>>>

tcmPatterns ==
    <<[id               |-> "windCold",
       name             |-> "Wind-Cold Invasion",
       description      |-> "windCold.description",
       classicalFormula |-> "windCold.classicalFormula",
       keyHerbs         |-> "windCold.keyHerbs",
       acupoints        |-> "windCold.acupoints",
       lifestyle        |-> <<"windCold.lifestyle[0]", "windCold.lifestyle[1]",
                              "windCold.lifestyle[2]">>,
       keywords         |-> windColdKeywords],
      [id               |-> "windHeat",
       name             |-> "Wind-Heat Invasion",
       description      |-> "windHeat.description",
       classicalFormula |-> "windHeat.classicalFormula",
       keyHerbs         |-> "windHeat.keyHerbs",
       acupoints        |-> "windHeat.acupoints",
       lifestyle        |-> <<"windHeat.lifestyle[0]", "windHeat.lifestyle[1]",
                              "windHeat.lifestyle[2]">>,
       keywords         |-> windHeatKeywords],
      [id               |-> "qiDeficiency",
       name             |-> "Spleen/Lung Qi Deficiency",
       description      |-> "qiDeficiency.description",
       classicalFormula |-> "qiDeficiency.classicalFormula",
       keyHerbs         |-> "qiDeficiency.keyHerbs",
       acupoints        |-> "qiDeficiency.acupoints",
       lifestyle        |-> <<"qiDeficiency.lifestyle[0]", "qiDeficiency.lifestyle[1]",
                              "qiDeficiency.lifestyle[2]">>,
       keywords         |-> qiDeficiencyKeywords],
      [id               |-> "liverQiStagnation",
       name             |-> "Liver Qi Stagnation",
       description      |-> "liverQiStagnation.description",
       classicalFormula |-> "liverQiStagnation.classicalFormula",
       keyHerbs         |-> "liverQiStagnation.keyHerbs",
       acupoints        |-> "liverQiStagnation.acupoints",
       lifestyle        |-> <<"liverQiStagnation.lifestyle[0]", "liverQiStagnation.lifestyle[1]",
                              "liverQiStagnation.lifestyle[2]">>,
       keywords         |-> liverQiStagnationKeywords]>>

redFlagIndicators ==
    <<[keywords |->
          <<<<"d", "i", "f", "f", "i", "c", "u", "l", "t", "y", " ", "b", "r",
              "e", "a", "t", "h", "i", "n", "g">>,
            <<"u5598", "u4e0d", "u8fc7", "u6c14">>,
            <<"c", "h", "e", "s", "t", " ", "p", "a", "i", "n">>,
            <<"u6655", "u53a5">>,
            <<"u610f", "u8bc6", "u6a21", "u7cca">>>>,
       message  |-> "redFlagIndicators[0].message"],
      [keywords |->
          <<<<"h", "i", "g", "h", " ", "f", "e", "v", "e", "r">>,
            <<"3", "9">>,
            <<"p", "e", "r", "s", "i", "s", "t", "e", "n", "t", " ", "v", "o",
              "m", "i", "t", "i", "n", "g">>,
            <<"u5455", "u8840">>,
            <<"u8840", "u4fbf">>>>,
       message  |-> "redFlagIndicators[1].message"]>>

\* the labels of intakeSummary, in the order of the summary's fields

SummaryLabel ==
    [keySymptoms  |-> <<"u4e3b", "u8bc9", "uff1a">>,
     duration     |-> <<"u75c5", "u7a0b", "uff1a">>,
     tongue       |-> <<"u820c", "u8c61", "uff1a">>,
     pulse        |-> <<"u8109", "u8c61", "uff1a">>,
     constitution |-> <<"u4f53", "u8d28", "uff1a">>,
     lifestyle    |-> <<"u751f", "u6d3b", "u65b9", "u5f0f", "uff1a">>]

\* the delimiter of intakeSummary (U+FF1B)
SummaryDelimiter == <<"uff1b">>


-----------------------------------------------------------------------------
(* tcm-insight tool: analyzePresentation *)

\* the letters with a lower-case form, each with that form
LowerCaseOf ==
    [A |-> "a", B |-> "b", C |-> "c", D |-> "d", E |-> "e", F |-> "f",
     G |-> "g", H |-> "h", I |-> "i", J |-> "j", K |-> "k", L |-> "l",
     M |-> "m", N |-> "n", O |-> "o", P |-> "p", Q |-> "q", R |-> "r",
     S |-> "s", T |-> "t", U |-> "u", V |-> "v", W |-> "w", X |-> "x",
     Y |-> "y", Z |-> "z"]

\* the lower-case form of one character (the CJK characters have no case)
LowerCaseChar(c) == IF c \in DOMAIN LowerCaseOf THEN LowerCaseOf[c] ELSE c

\* String.prototype.toLowerCase
toLowerCase(s) == [i \in 1..Len(s) |-> LowerCaseChar(s[i])]

\* String.prototype.includes
Includes(s, needle) ==
    \E text \in {s}, word \in {needle} :
        \E i \in 0..(Len(text) - Len(word)) :
            \A k \in 1..Len(word) : text[i + k] = word[k]

\* Array.prototype.slice(start, end), 0-based, end exclusive
Slice(a, start, end) ==
    SubSeq(a, start + 1, IF end < Len(a) THEN end ELSE Len(a))

\* mutant of FilterPositive: every item kept
FilterPositiveKeepAll(items) == items

\* Array.prototype.filter((item) => item.score > 0)
RECURSIVE FilterPositive(_)
FilterPositive(items) ==
    IF Len(items) = 0 THEN <<>>
    ELSE (IF Head(items).score > 0 THEN <<Head(items)>> ELSE <<>>)
         \o FilterPositive(Tail(items))

\* Array.from(new Set(a)): the first occurrence of each element, in order
RECURSIVE ArrayFromSet(_)
ArrayFromSet(a) ==
    IF Len(a) = 0 THEN <<>>
    ELSE LET front == ArrayFromSet(SubSeq(a, 1, Len(a) - 1))
             last  == a[Len(a)]
         IN  IF \E i \in 1..Len(front) : front[i] = last
             THEN front ELSE Append(front, last)

\* mutant of FlatMapLifestyle: the last pattern's advice comes first
RECURSIVE FlatMapLifestyleReversed(_)
FlatMapLifestyleReversed(ps) ==
    IF Len(ps) = 0 THEN <<>>
    ELSE FlatMapLifestyleReversed(Tail(ps)) \o Head(ps).lifestyle

\* Array.prototype.flatMap(p => p.lifestyle)
RECURSIVE FlatMapLifestyle(_)
FlatMapLifestyle(ps) ==
    IF Len(ps) = 0 THEN <<>>
    ELSE Head(ps).lifestyle \o FlatMapLifestyle(Tail(ps))

\* the lower-cased narrative: the present fields, joined by one space
narrativeParts(ctx) ==
    toLowerCase(Join(FilterBoolean(<<ctx.keySymptoms, ctx.duration, ctx.tongue,
                                     ctx.pulse, ctx.constitution, ctx.lifestyle>>),
                     <<" ">>))

\* pattern.keywords.reduce(...): the keywords the narrative includes, counted
RECURSIVE KeywordScore(_, _)
KeywordScore(keywords, narrative) ==
    IF Len(keywords) = 0 THEN 0
    ELSE LET acc     == KeywordScore(SubSeq(keywords, 1, Len(keywords) - 1), narrative)
             keyword == keywords[Len(keywords)]
         IN  IF Includes(narrative, toLowerCase(keyword)) THEN acc + 1 ELSE acc

\* mutant of InsertByScore: item placed before the items scoring as much
RECURSIVE InsertByScoreBeforeTies(_, _)
InsertByScoreBeforeTies(sorted, item) ==
    IF Len(sorted) = 0 THEN <<item>>
    ELSE IF item.score - Head(sorted).score >= 0
         THEN <<item>> \o sorted
    ELSE <<Head(sorted)>> \o InsertByScoreBeforeTies(Tail(sorted), item)

\* one step of the stable sort: item placed after every item scoring as much
RECURSIVE InsertByScore(_, _)
InsertByScore(sorted, item) ==
    IF Len(sorted) = 0 THEN <<item>>
    ELSE IF item.score - Head(sorted).score > 0
         THEN <<item>> \o sorted
    ELSE <<Head(sorted)>> \o InsertByScore(Tail(sorted), item)

\* Array.prototype.sort((a, b) => b.score - a.score), which is stable
RECURSIVE SortByScore(_)
SortByScore(items) ==
    IF Len(items) = 0 THEN <<>>
    ELSE InsertByScore(SortByScore(SubSeq(items, 1, Len(items) - 1)),
                       items[Len(items)])

\* the catalog, scored against the narrative and sorted
scored(narrative) ==
    SortByScore([i \in 1..Len(tcmPatterns) |->
                    [pattern |-> tcmPatterns[i],
                     score   |-> KeywordScore(tcmPatterns[i].keywords, narrative)]])

buildPattern(pattern, ctx) ==
    [name             |-> pattern.name,
     description      |-> pattern.description,
     classicalFormula |-> pattern.classicalFormula,
     keyHerbs         |-> pattern.keyHerbs,
     acupoints        |-> pattern.acupoints,
     lifestyle        |-> pattern.lifestyle,
     rationale        |-> [keySymptoms |-> ctx.keySymptoms, matches |-> pattern.name]]

buildGeneralWellnessPattern(ctx) ==
    [name             |-> "General Regulation",
     description      |-> "general.description",
     classicalFormula |-> "general.classicalFormula",
     keyHerbs         |-> "general.keyHerbs",
     acupoints        |-> "general.acupoints",
     lifestyle        |-> <<"general.lifestyle[0]", "general.lifestyle[1]">>,
     rationale        |-> [keySymptoms |-> ctx.keySymptoms, matches |-> "none"]]

\* mutant of IndicatorHit: only the first keyword of the rule is looked for
IndicatorHitFirstKeyword(indicator, narrative) ==
    Includes(narrative, toLowerCase(indicator.keywords[1]))

\* indicator.keywords.some((keyword) => narrative.includes(keyword.toLowerCase()))
IndicatorHit(indicator, narrative) ==
    \E k \in 1..Len(indicator.keywords) :
        Includes(narrative, toLowerCase(indicator.keywords[k]))

\* Array.prototype.filter of the indicators with a hit
RECURSIVE FilterHit(_, _)
FilterHit(indicators, narrative) ==
    IF Len(indicators) = 0 THEN <<>>
    ELSE (IF IndicatorHit(Head(indicators), narrative)
          THEN <<Head(indicators)>> ELSE <<>>)
         \o FilterHit(Tail(indicators), narrative)

\* the red-flag rules with a keyword in the narrative, as their messages
redFlagsOf(narrative) ==
    LET hits == FilterHit(redFlagIndicators, narrative)
    IN  [i \in 1..Len(hits) |-> hits[i].message]

\* the labelled present fields, joined by the delimiter
intakeSummaryOf(ctx) ==
    LET labelled(field) ==
            IF Truthy(ctx[field]) THEN SummaryLabel[field] \o ctx[field] ELSE null
    IN  Join(FilterBoolean(<<SummaryLabel.keySymptoms \o ctx.keySymptoms,
                             labelled("duration"), labelled("tongue"),
                             labelled("pulse"), labelled("constitution"),
                             labelled("lifestyle")>>),
             SummaryDelimiter)

analyzePresentation(ctx) ==
    LET narrative == narrativeParts(ctx)
        ranked    == scored(narrative)
        primary   == IF Len(ranked) > 0 /\ ranked[1].score # 0
                     THEN buildPattern(ranked[1].pattern, ctx)
                     ELSE buildGeneralWellnessPattern(ctx)
        secondary == FilterPositive(Slice(ranked, 1, 3))
        secondaryPatterns ==
            [i \in 1..Len(secondary) |-> buildPattern(secondary[i].pattern, ctx)]
    IN  [primaryPattern    |-> primary,
         secondaryPatterns |-> secondaryPatterns,
         redFlags          |-> redFlagsOf(narrative),
         intakeSummary     |-> intakeSummaryOf(ctx),
         suggestedFocus    |->
             Slice(ArrayFromSet(primary.lifestyle
                                \o FlatMapLifestyle(secondaryPatterns)), 0, 5)]

-----------------------------------------------------------------------------
(* Inputs *)

MaxOriginLen == 5
MaxRawLen == 4
MaxHeaderLen == 2
MaxEnvLen == 3
MaxWords == 3

\* resolver: the request origin is absent, or a string of label characters and
\* dots (the empty one included) with no, one or two slashes after it
OriginChars == {"a", "."}
RequestOrigins ==
    {null} \cup {host \o slashes :
                   host \in StringsUpTo(OriginChars, MaxOriginLen),
                   slashes \in {<<>>, <<"/">>, <<"/", "/">>}}

\* resolver: the allow-lists the configuration parser yields
RawChars == {"a", ".", "*", ","}
AllowLists == {splitAllowedOrigins(raw) : raw \in StringsUpTo(RawChars, MaxRawLen)}

\* worker: requests and environments
Methods == {"OPTIONS", "GET"}
HeaderChars == {"a", "/"}
Requests ==
    [method : Methods, origin : {null} \cup StringsUpTo(HeaderChars, MaxHeaderLen)]
EnvChars == {"a", "*", ",", "/", " "}
Environments == {null} \cup StringsUpTo(EnvChars, MaxEnvLen)

\* worker: the responses the upstream handler may resolve with
UpstreamHeaders ==
    {[h \in HeaderNames |->
        CASE h = "Access-Control-Allow-Origin" -> acao
          [] h = "Vary" -> vary
          [] h = "Access-Control-Max-Age" -> maxAge
          [] h = "Content-Type" ->
                <<"a", "p", "p", "l", "i", "c", "a", "t", "i", "o", "n", "/",
                  "j", "s", "o", "n">>
          [] OTHER -> null] :
     acao \in {null, <<"*">>, <<"u">>},
     vary \in {null, <<"A", "c", "c", "e", "p", "t">>},
     maxAge \in {null, <<"6", "0", "0">>}}
UpstreamResponses ==
    {[status |-> s[1], statusText |-> s[2], body |-> s[3], headers |-> h] :
     s \in {<<200, <<"O", "K">>, <<"{", "}">>>>, <<304, <<"N", "o", "t", " ", "M", "o", "d", "i", "f", "i", "e", "d">>, null>>},
     h \in UpstreamHeaders}

\* tool: the words of the key-symptoms field
Vocabulary ==
    {<<"u6076", "u5bd2">>,
     <<"u5934", "u75db">>,
     <<"u65e0", "u6c57">>,
     <<"F", "e", "v", "e", "r">>,
     <<"u4e00", "u822c", "u4e0d", "u9002">>,
     <<"u80f8", "u75db">>,
     <<"u547c", "u5438", "u56f0", "u96be">>,
     <<"C", "h", "e", "s", "t", " ", "P", "a", "i", "n">>}

\* the texts of 0..n vocabulary words, separated by one space
RECURSIVE PhrasesUpTo(_)
PhrasesUpTo(n) ==
    IF n = 0 THEN {<<>>}
    ELSE LET shorter == PhrasesUpTo(n - 1)
         IN  shorter \cup {IF p = <<>> THEN w ELSE p \o <<" ">> \o w :
                            p \in shorter, w \in Vocabulary}

\* tool: the optional fields of an intake, absent (null), empty or filled
OptionalFields ==
    {[duration |-> null, tongue |-> null, pulse |-> null,
      constitution |-> null, lifestyle |-> null],
     [duration |-> <<>>, tongue |-> null, pulse |-> null,
      constitution |-> null, lifestyle |-> null],
     [duration |-> <<"3", "9">>, tongue |-> null, pulse |-> null,
      constitution |-> null, lifestyle |-> null],
     [duration |-> <<"c", "h", "i", "l", "l", "s">>, tongue |-> null,
      pulse |-> null, constitution |-> null, lifestyle |-> null],
     [duration |-> null, tongue |-> <<"s", "i", "g", "h">>, pulse |-> null,
      constitution |-> null, lifestyle |-> <<"s", "t", "r", "e", "s", "s">>],
     [duration |-> null, tongue |-> null, pulse |-> <<"P", "M", "S">>,
      constitution |-> null, lifestyle |-> null],
     [duration |-> null, tongue |-> null, pulse |-> null,
      constitution |-> <<"T", "i", "r", "e", "d">>,
      lifestyle |-> <<"s", "t", "r", "e", "s", "s">>],
     [duration |-> <<"3", "9", " ", "u5455", "u8840">>,
      tongue |-> <<"s", "i", "g", "h">>,
      pulse |-> null, constitution |-> null, lifestyle |-> null]}

Intakes ==
    {[keySymptoms  |-> symptoms,
      duration     |-> optional.duration,
      tongue       |-> optional.tongue,
      pulse        |-> optional.pulse,
      constitution |-> optional.constitution,
      lifestyle    |-> optional.lifestyle] :
     symptoms \in PhrasesUpTo(MaxWords), optional \in OptionalFields}

-----------------------------------------------------------------------------
(* Specifications *)

ResolverIdle ==
    /\ requestOrigin = null
    /\ allowedOrigins = <<>>
    /\ resolved = pending
    /\ resolvedServer = pending

WorkerIdle ==
    /\ request = null
    /\ env = null
    /\ upstreamCalls = 0
    /\ upstream = pending
    /\ response = pending

ToolIdle ==
    /\ context = null
    /\ analysis = pending

(* Resolver: the inputs are drawn at Init, then each resolver is applied *)

InitResolve ==
    /\ pc = "worker"
    /\ requestOrigin \in RequestOrigins
    /\ allowedOrigins \in AllowLists
    /\ resolved = pending
    /\ resolvedServer = pending
    /\ WorkerIdle
    /\ ToolIdle

\* the worker resolves the request's origin
WorkerResolve ==
    /\ pc = "worker"
    /\ resolved' = resolveCorsOrigin(requestOrigin, allowedOrigins)
    /\ pc' = "server"
    /\ UNCHANGED <<requestOrigin, allowedOrigins, resolvedServer, workerVars, toolVars>>

\* the framework's cors.origin callback resolves the same origin
ServerResolve ==
    /\ pc = "server"
    /\ resolvedServer' = resolveCorsOriginServer(requestOrigin, allowedOrigins)
    /\ pc' = "resolved"
    /\ UNCHANGED <<requestOrigin, allowedOrigins, resolved, workerVars, toolVars>>

NextResolve == WorkerResolve \/ ServerResolve

SpecResolve == InitResolve /\ [][NextResolve]_vars

(* Worker: one request through the fetch handler *)

InitFetch ==
    /\ pc = "fetch"
    /\ request \in Requests
    /\ env \in Environments
    /\ upstreamCalls = 0
    /\ upstream = pending
    /\ response = pending
    /\ ResolverIdle
    /\ ToolIdle

\* fetch, OPTIONS branch: the synthesized 204 is returned
FetchPreflight ==
    /\ pc = "fetch"
    /\ request.method = "OPTIONS"
    /\ response' = PreflightResponse
    /\ pc' = "responded"
    /\ UNCHANGED <<request, env, upstreamCalls, upstream, resolverVars, toolVars>>

\* fetch, any other method: mastraHandler.fetch is called and awaited
FetchForward ==
    /\ pc = "fetch"
    /\ request.method # "OPTIONS"
    /\ upstreamCalls' = upstreamCalls + 1
    /\ pc' = "awaiting"
    /\ UNCHANGED <<request, env, upstream, response, resolverVars, toolVars>>

\* the awaited promise resolves: the upstream's response is re-wrapped
UpstreamResolves ==
    /\ pc = "awaiting"
    /\ \E up \in UpstreamResponses :
         /\ upstream' = up
         /\ response' = ForwardedResponse(up)
    /\ pc' = "responded"
    /\ UNCHANGED <<request, env, upstreamCalls, resolverVars, toolVars>>

\* the awaited promise rejects: fetch rejects without a response
UpstreamRejects ==
    /\ pc = "awaiting"
    /\ pc' = "rejected"
    /\ UNCHANGED <<workerVars, resolverVars, toolVars>>

NextFetch == FetchPreflight \/ FetchForward \/ UpstreamResolves \/ UpstreamRejects

SpecFetch == InitFetch /\ [][NextFetch]_vars

(* Tool: one execution of tcm-insight *)

InitAnalyze ==
    /\ pc = "execute"
    /\ context \in Intakes
    /\ analysis = pending
    /\ ResolverIdle
    /\ WorkerIdle

\* execute: analyzePresentation(context)
Execute ==
    /\ pc = "execute"
    /\ analysis' = analyzePresentation(context)
    /\ pc' = "executed"
    /\ UNCHANGED <<context, resolverVars, workerVars>>

NextAnalyze == Execute

SpecAnalyze == InitAnalyze /\ [][NextAnalyze]_vars

-----------------------------------------------------------------------------
(* Properties of the resolver (SpecResolve) *)

\* the worker's resolver has returned
WorkerResolved == pc \in {"server", "resolved"}

\* s without its last character when that is a slash
WithoutTrailingSlash(s) ==
    IF s # <<>> /\ s[Len(s)] = "/" THEN [i \in 1..(Len(s) - 1) |-> s[i]] ELSE s

\* s is p with every "*" replaced by some string, every other character kept
RECURSIVE WildcardFits(_, _)
WildcardFits(p, s) ==
    IF p = <<>> THEN s = <<>>
    ELSE IF Head(p) = "*"
         THEN \E k \in 0..Len(s) : WildcardFits(Tail(p), SubSeq(s, k + 1, Len(s)))
    ELSE s # <<>> /\ Head(s) = Head(p) /\ WildcardFits(Tail(p), Tail(s))

\* the same, with no "." in the strings that replace a "*"
RECURSIVE SegmentFits(_, _)
SegmentFits(p, s) ==
    IF p = <<>> THEN s = <<>>
    ELSE IF Head(p) = "*"
         THEN \E k \in 0..Len(s) :
                /\ \A m \in 1..k : s[m] # "."
                /\ SegmentFits(Tail(p), SubSeq(s, k + 1, Len(s)))
    ELSE s # <<>> /\ Head(s) = Head(p) /\ SegmentFits(Tail(p), Tail(s))

HasStar(entry) == \E i \in 1..Len(entry) : entry[i] = "*"

\* the matching rule of an allow-list entry
EntryAccepts(entry, origin) ==
    \/ entry = <<"*">>
    \/ HasStar(entry) /\ WildcardFits(entry, origin)
    \/ ~HasStar(entry) /\ entry = origin

\* C1: for a present origin and a non-empty allow-list, the worker's resolver
\* returns the origin without one trailing slash if and only if that
\* normalized origin matches an entry ("*", wildcard, or equality), and null
\* otherwise.
C1_ResolveIffMatch ==
    (WorkerResolved /\ Truthy(requestOrigin) /\ allowedOrigins # <<>>) =>
        LET normalized == WithoutTrailingSlash(requestOrigin)
        IN  IF \E i \in 1..Len(allowedOrigins) :
                    EntryAccepts(allowedOrigins[i], normalized)
            THEN resolved = normalized
            ELSE resolved = null

\* the spec's example in small: list ["a", "."], origin "a/" resolves to "a"
C1_Witness ==
    /\ WorkerResolved
    /\ allowedOrigins = <<<<"a">>, <<".">>>>
    /\ requestOrigin = <<"a", "/">>
    /\ resolved = <<"a">>

\* C2 as stated: with "*" in the allow-list, every present origin resolves
\* to itself.
C2_Original ==
    (WorkerResolved /\ Truthy(requestOrigin)
       /\ \E i \in 1..Len(allowedOrigins) : allowedOrigins[i] = <<"*">>) =>
        resolved = requestOrigin

\* C2 amended: with "*" in the allow-list, the worker resolves every present
\* origin to that origin without one trailing slash (so to itself when it
\* does not end in a slash), and the framework-side resolver to the origin
\* itself.
C2_ResolveStarList ==
    (Truthy(requestOrigin)
       /\ \E i \in 1..Len(allowedOrigins) : allowedOrigins[i] = <<"*">>) =>
        /\ WorkerResolved =>
             /\ resolved = WithoutTrailingSlash(requestOrigin)
             /\ (requestOrigin[Len(requestOrigin)] # "/" => resolved = requestOrigin)
        /\ pc = "resolved" => resolvedServer = requestOrigin

\* an origin ending in a slash, a list holding "*" beside another entry
C2_Witness ==
    /\ pc = "resolved"
    /\ allowedOrigins = <<<<"a">>, <<"*">>>>
    /\ requestOrigin = <<".", "a", "/">>
    /\ resolved = <<".", "a">>
    /\ resolvedServer = <<".", "a", "/">>

\* C3: without a request origin the worker's resolver returns the first
\* allow-list entry, or "*" for the empty list, whatever the entries are.
C3_AbsentOrigin ==
    (WorkerResolved /\ requestOrigin = null) =>
        resolved = IF allowedOrigins = <<>> THEN <<"*">> ELSE allowedOrigins[1]

\* no origin, and a first entry that is a wildcard pattern: returned as it is
C3_Witness ==
    /\ WorkerResolved
    /\ requestOrigin = null
    /\ allowedOrigins = <<<<"*", "a">>, <<".">>>>
    /\ resolved = <<"*", "a">>

\* C4: with the empty allow-list every present origin resolves to itself
\* without one trailing slash, never to null.
C4_EmptyList ==
    (WorkerResolved /\ Truthy(requestOrigin) /\ allowedOrigins = <<>>) =>
        /\ resolved = WithoutTrailingSlash(requestOrigin)
        /\ resolved # null

C4_Witness ==
    /\ WorkerResolved
    /\ allowedOrigins = <<>>
    /\ requestOrigin = <<"a", ".", "a">>
    /\ resolved = <<"a", ".", "a">>

\* C5: an entry containing "*" accepts an origin if and only if the whole
\* origin is the entry with each "*" replaced by some string, every other
\* character (the "." too) standing for itself.  Seen through a list of that
\* one entry: the resolver returns null exactly when the entry rejects.
C5_WildcardExact ==
    (WorkerResolved /\ Truthy(requestOrigin) /\ Len(allowedOrigins) = 1
       /\ HasStar(allowedOrigins[1])) =>
        (resolved # null <=>
            WildcardFits(allowedOrigins[1], WithoutTrailingSlash(requestOrigin)))

\* "*.a" accepts "a.a"; the state also shows a "." of the entry kept literal
C5_Witness ==
    /\ WorkerResolved
    /\ allowedOrigins = <<<<"*", ".", "a">>>>
    /\ requestOrigin = <<"a", ".", "a">>
    /\ resolved = <<"a", ".", "a">>

\* C6 as stated: a "*" inside an entry stands for one segment, so an entry
\* does not match an origin whose text at a "*" spans several labels.
C6_Original ==
    (WorkerResolved /\ Truthy(requestOrigin) /\ Len(allowedOrigins) = 1
       /\ HasStar(allowedOrigins[1]) /\ allowedOrigins[1] # <<"*">>
       /\ resolved # null) =>
        SegmentFits(allowedOrigins[1], WithoutTrailingSlash(requestOrigin))

\* C6 amended: a "*" inside an entry stands for any string, one that spans
\* several dot-separated labels included: an origin that is the entry with
\* such strings at its "*"s is matched.
C6_WildcardSpansLabels ==
    (WorkerResolved /\ Truthy(requestOrigin) /\ Len(allowedOrigins) = 1
       /\ HasStar(allowedOrigins[1])
       /\ WildcardFits(allowedOrigins[1], WithoutTrailingSlash(requestOrigin))
       /\ ~SegmentFits(allowedOrigins[1], WithoutTrailingSlash(requestOrigin))) =>
        resolved = WithoutTrailingSlash(requestOrigin)

\* "*.a" matches "a.a.a": the "*" stands for "a.a", two labels
C6_Witness ==
    /\ WorkerResolved
    /\ allowedOrigins = <<<<"*", ".", "a">>>>
    /\ requestOrigin = <<"a", ".", "a", ".", "a">>
    /\ resolved = requestOrigin

-----------------------------------------------------------------------------
(* Properties of the worker's fetch handler (SpecFetch) *)

Responded == pc = "responded"

\* C7: when the resolved origin is null, the response carries no
\* Access-Control-Allow-Origin header.
C7_NullOmitsAllowOrigin ==
    (Responded /\ FetchOrigin = null) =>
        response.headers["Access-Control-Allow-Origin"] = null

\* C8: an OPTIONS request is answered 204 without a body, with the four
\* fixed CORS headers and Access-Control-Max-Age 86400, and the upstream
\* handler is never invoked for it.
C8_Preflight ==
    (request.method = "OPTIONS") =>
        /\ upstreamCalls = 0
        /\ pc \in {"fetch", "responded"}
        /\ Responded =>
             /\ response.status = 204
             /\ response.body = null
             /\ response.headers["Access-Control-Allow-Methods"] =
                  <<"G", "E", "T", ",", " ", "P", "O", "S", "T", ",", " ",
                    "P", "U", "T", ",", " ", "P", "A", "T", "C", "H", ",",
                    " ", "D", "E", "L", "E", "T", "E", ",", " ", "O", "P",
                    "T", "I", "O", "N", "S">>
             /\ response.headers["Access-Control-Allow-Headers"] =
                  <<"C", "o", "n", "t", "e", "n", "t", "-", "T", "y", "p",
                    "e", ",", " ", "A", "u", "t", "h", "o", "r", "i", "z",
                    "a", "t", "i", "o", "n", ",", " ", "x", "-", "m", "a",
                    "s", "t", "r", "a", "-", "c", "l", "i", "e", "n", "t",
                    "-", "t", "y", "p", "e", ",", " ", "x", "-", "r", "e",
                    "q", "u", "e", "s", "t", "-", "i", "d">>
             /\ response.headers["Access-Control-Expose-Headers"] =
                  <<"C", "o", "n", "t", "e", "n", "t", "-", "L", "e", "n",
                    "g", "t", "h", ",", " ", "X", "-", "R", "e", "q", "u",
                    "e", "s", "t", "e", "d", "-", "W", "i", "t", "h", ",",
                    " ", "x", "-", "r", "e", "q", "u", "e", "s", "t", "-",
                    "i", "d">>
             /\ response.headers["Access-Control-Max-Age"] =
                  <<"8", "6", "4", "0", "0">>

\* a preflight of an origin the allow-list rejects, answered
C8_Witness ==
    /\ Responded
    /\ request.method = "OPTIONS"
    /\ request.origin = <<"a", "a">>
    /\ env = <<"a">>
    /\ response.status = 204

\* C9 as stated: Vary: Origin is set only when the Access-Control-Allow-Origin
\* written is the request's own (normalized) Origin.
C9_Original ==
    (Responded /\ response.headers["Vary"] = <<"O", "r", "i", "g", "i", "n">>) =>
        /\ Truthy(request.origin)
        /\ response.headers["Access-Control-Allow-Origin"] =
             WithoutTrailingSlash(request.origin)

\* C9 amended: applyCorsHeaders sets Vary: Origin exactly when the resolved
\* origin it is given is a non-empty string, and then writes that value as
\* Access-Control-Allow-Origin: the echoed request origin, and also the first
\* allow-list entry or "*" resolved for a request without Origin.  With a
\* null or empty resolved origin, Vary is left as it was.
C9_VaryWithResolvedOrigin ==
    Responded =>
        LET before == IF request.method = "OPTIONS" THEN null
                      ELSE upstream.headers["Vary"]
        IN  IF FetchOrigin # null /\ FetchOrigin # <<>>
            THEN /\ response.headers["Vary"] = <<"O", "r", "i", "g", "i", "n">>
                 /\ response.headers["Access-Control-Allow-Origin"] = FetchOrigin
            ELSE response.headers["Vary"] = before

\* a request without Origin, answered with Vary: Origin and the first entry
C9_Witness ==
    /\ Responded
    /\ request.origin = null
    /\ env = <<"a", ",", "*">>
    /\ response.headers["Vary"] = <<"O", "r", "i", "g", "i", "n">>
    /\ response.headers["Access-Control-Allow-Origin"] = <<"a">>

-----------------------------------------------------------------------------
(* Properties of the tcm-insight tool (SpecAnalyze) *)

Executed == pc = "executed"

\* the present fields of the intake, in the narrative's order, case kept
PresentFields(ctx) ==
    SelectSeq(<<ctx.keySymptoms, ctx.duration, ctx.tongue, ctx.pulse,
                ctx.constitution, ctx.lifestyle>>,
              LAMBDA f : f # null /\ f # <<>>)

\* texts separated by one space
RECURSIVE Spaced(_)
Spaced(texts) ==
    IF texts = <<>> THEN <<>>
    ELSE IF Len(texts) = 1 THEN texts[1]
    ELSE texts[1] \o <<" ">> \o Spaced(Tail(texts))

\* keyword occurs in text, letters compared without regard to case
OccursIgnoringCase(keyword, text) ==
    \E word \in {keyword}, t \in {text} :
        \E i \in 0..(Len(t) - Len(word)) :
            \A k \in 1..Len(word) :
                LowerCaseChar(t[i + k]) = LowerCaseChar(word[k])

\* the number of the keywords that occur in text
KeywordsOccurring(keywords, text) ==
    Cardinality({k \in 1..Len(keywords) : OccursIgnoringCase(keywords[k], text)})

\* for each catalog index, the number of the pattern's keywords in the narrative
CatalogScores(ctx) ==
    CHOOSE scores \in
        {[i \in 1..Len(tcmPatterns) |->
             KeywordsOccurring(tcmPatterns[i].keywords, text)] :
         text \in {Spaced(PresentFields(ctx))}} : TRUE

\* the index of the highest of the scores, the earliest on a tie
Highest(scores) ==
    CHOOSE i \in DOMAIN scores :
        \A j \in DOMAIN scores :
            scores[j] < scores[i] \/ (scores[j] = scores[i] /\ i <= j)

\* the catalog index of the pattern with the given id
CatalogIndex(id) == CHOOSE i \in 1..Len(tcmPatterns) : tcmPatterns[i].id = id

\* the intake {keySymptoms: "U+6076 U+5BD2, U+5934 U+75DB, U+65E0 U+6C57"}
WindColdIntake ==
    [keySymptoms  |-> <<"u6076", "u5bd2", " ", "u5934", "u75db", " ", "u65e0", "u6c57">>,
     duration     |-> null,
     tongue       |-> null,
     pulse        |-> null,
     constitution |-> null,
     lifestyle    |-> null]

\* C10: each pattern's score is the number of its keywords occurring in the
\* narrative without regard to case; the primary pattern is the highest
\* scoring one when its score is positive, the earliest of the catalog on a
\* tie, and the General Regulation fallback otherwise; the wind-cold intake
\* gives windCold with a score of at least 3.
C10_PrimaryPattern ==
    Executed =>
        \A ranked \in {scored(narrativeParts(context))},
           scores \in {CatalogScores(context)} :
        LET best == Highest(scores)
        IN  /\ \A r \in 1..Len(ranked) :
                 ranked[r].score = scores[CatalogIndex(ranked[r].pattern.id)]
            /\ analysis.primaryPattern.name =
                 IF scores[best] > 0
                 THEN tcmPatterns[best].name ELSE "General Regulation"
            /\ context = WindColdIntake =>
                 /\ analysis.primaryPattern.name = "Wind-Cold Invasion"
                 /\ ranked[1].pattern.id = "windCold"
                 /\ ranked[1].score >= 3

\* the wind-cold intake analysed
C10_Witness ==
    /\ Executed
    /\ context = WindColdIntake
    /\ analysis.primaryPattern.name = "Wind-Cold Invasion"

-----------------------------------------------------------------------------
(* secondaryPatterns *)

\* the rank of catalog index i: one more than the number of indices that
\* score higher, or as much while standing earlier in the catalog
RankPosition(scores, i) ==
    1 + Cardinality({j \in DOMAIN scores :
                        scores[j] > scores[i] \/ (scores[j] = scores[i] /\ j < i)})

\* the catalog index ranked r-th
RankedAt(scores, r) == CHOOSE i \in DOMAIN scores : RankPosition(scores, i) = r

\* no keyword of the catalog occurs in the narrative
NoCatalogKeyword(scores) == \A i \in DOMAIN scores : scores[i] = 0

\* C11: secondaryPatterns is the patterns ranked second and third that score
\* above 0, in rank order; it has at most two entries, never holds the primary
\* pattern, and is empty when no catalog keyword occurs in the narrative.
C11_SecondaryPatterns ==
    Executed =>
        \A scores \in {CatalogScores(context)} :
        LET next == SelectSeq(<<RankedAt(scores, 2), RankedAt(scores, 3)>>,
                              LAMBDA i : scores[i] > 0)
            secondary == analysis.secondaryPatterns
        IN  /\ Len(secondary) = Len(next)
            /\ \A k \in 1..Len(next) :
                 /\ secondary[k].name = tcmPatterns[next[k]].name
                 /\ secondary[k].lifestyle = tcmPatterns[next[k]].lifestyle
                 /\ secondary[k].name # analysis.primaryPattern.name
            /\ Len(secondary) <= 2
            /\ NoCatalogKeyword(scores) => secondary = <<>>

\* an intake with three scoring patterns, the lower two as the secondaries
C11_Witness ==
    /\ Executed
    /\ Len(analysis.secondaryPatterns) = 2
    /\ Cardinality({i \in 1..Len(tcmPatterns) : CatalogScores(context)[i] > 0}) = 3

-----------------------------------------------------------------------------
(* redFlags *)

\* the intake {keySymptoms: "U+80F8 U+75DB, U+547C U+5438 U+56F0 U+96BE"}
\* (chest pain, difficulty breathing), no other field
ChestPainIntake ==
    [keySymptoms  |-> <<"u80f8", "u75db", " ", "u547c", "u5438", "u56f0", "u96be">>,
     duration     |-> null,
     tongue       |-> null,
     pulse        |-> null,
     constitution |-> null,
     lifestyle    |-> null]

\* C12: the chest-pain intake is answered with a non-empty redFlags.
C12_ChestPainRedFlags ==
    (Executed /\ context = ChestPainIntake) => Len(analysis.redFlags) > 0

\* the red-flag rule of index i has a keyword occurring in text
RuleHit(i, text) ==
    \E k \in 1..Len(redFlagIndicators[i].keywords) :
        OccursIgnoringCase(redFlagIndicators[i].keywords[k], text)

\* the number of the keywords of rule i occurring in text
RuleHits(i, text) == KeywordsOccurring(redFlagIndicators[i].keywords, text)

\* C13: redFlags is, in declaration order, the message of each red-flag rule
\* with at least one keyword occurring in the narrative without regard to
\* case, once per rule however many of its keywords occur, and nothing for
\* a rule without a hit; it is empty when no red-flag keyword occurs.
C13_RedFlagsPerRule ==
    Executed =>
        \A text \in {Spaced(PresentFields(context))} :
        LET rules == [i \in 1..Len(redFlagIndicators) |-> i]
            hits  == SelectSeq(rules, LAMBDA i : RuleHit(i, text))
        IN  /\ analysis.redFlags =
                 [k \in 1..Len(hits) |-> redFlagIndicators[hits[k]].message]
            /\ Len(analysis.redFlags) =
                 Cardinality({i \in 1..Len(redFlagIndicators) : RuleHit(i, text)})

\* both rules hit, the second by two of its keywords, the first by a keyword
\* written with capital letters
C13_Witness ==
    /\ Executed
    /\ RuleHit(1, Spaced(PresentFields(context)))
    /\ Includes(context.keySymptoms,
                <<"C", "h", "e", "s", "t", " ", "P", "a", "i", "n">>)
    /\ RuleHits(2, Spaced(PresentFields(context))) = 2
    /\ Len(analysis.redFlags) = 2

-----------------------------------------------------------------------------
(* suggestedFocus *)

\* the advice of the primary pattern, then of each secondary in rank order
AdviceInOrder(result) ==
    LET RECURSIVE Advice(_)
        Advice(k) ==
            IF k > Len(result.secondaryPatterns) THEN <<>>
            ELSE result.secondaryPatterns[k].lifestyle \o Advice(k + 1)
    IN  result.primaryPattern.lifestyle \o Advice(1)

\* seq keeps exactly the first occurrence of each element of all, in order
IsFirstSeenUnion(seq, all) ==
    /\ \A i, j \in 1..Len(seq) : seq[i] = seq[j] => i = j
    /\ {seq[i] : i \in 1..Len(seq)} = {all[i] : i \in 1..Len(all)}
    /\ \A i, j \in 1..Len(seq) :
          i < j =>
            (CHOOSE a \in 1..Len(all) :
                all[a] = seq[i] /\ \A b \in 1..(a - 1) : all[b] # seq[i])
            < (CHOOSE a \in 1..Len(all) :
                all[a] = seq[j] /\ \A b \in 1..(a - 1) : all[b] # seq[j])

\* the limit on the number of entries of suggestedFocus
FocusLimit == 5

\* C14: suggestedFocus has at most 5 entries, none of them twice, and is the
\* first 5 (or fewer) entries of the first-seen-order union of the primary
\* pattern's lifestyle advice and each secondary pattern's, in rank order.
C14_SuggestedFocus ==
    Executed =>
        \A all \in {AdviceInOrder(analysis)} :
        \E union \in {ArrayFromSet(all)} :
            /\ IsFirstSeenUnion(union, all)
            /\ Len(analysis.suggestedFocus) <= FocusLimit
            /\ \A i, j \in 1..Len(analysis.suggestedFocus) :
                  analysis.suggestedFocus[i] = analysis.suggestedFocus[j] => i = j
            /\ Len(analysis.suggestedFocus) =
                  (IF Len(union) < FocusLimit THEN Len(union) ELSE FocusLimit)
            /\ \A i \in 1..Len(analysis.suggestedFocus) :
                  analysis.suggestedFocus[i] = union[i]

\* a primary and two secondary patterns: nine pieces of advice cut to five
C14_Witness ==
    /\ Executed
    /\ Len(analysis.secondaryPatterns) = 2
    /\ Len(AdviceInOrder(analysis)) = 9
    /\ Len(analysis.suggestedFocus) = FocusLimit

-----------------------------------------------------------------------------
(* The two resolvers compared (SpecResolve) *)

BothResolved == pc = "resolved"

\* the request origin is a string ending in "/"
EndsInSlash(origin) ==
    origin # null /\ Len(origin) > 0 /\ origin[Len(origin)] = "/"

\* C15: on the same allow-list the framework-side resolver and the worker's
\* return the same result for an absent origin and for every origin that
\* does not end in "/"; they differ only on origins with a trailing slash.
C15_ResolversAgree ==
    BothResolved =>
        /\ ~EndsInSlash(requestOrigin) => resolvedServer = resolved
        /\ resolvedServer # resolved => EndsInSlash(requestOrigin)

\* an origin without a trailing slash let in by a wildcard entry that is not
\* the first of the list, resolved alike by both
C15_Witness ==
    /\ BothResolved
    /\ requestOrigin = <<"a", ".", "a">>
    /\ allowedOrigins = <<<<"a">>, <<"a", "*">>>>
    /\ resolved = requestOrigin
    /\ resolvedServer = requestOrigin

-----------------------------------------------------------------------------
(* Forwarded requests (SpecFetch) *)

\* the headers the claim lets the handler rewrite on a forwarded response
RewrittenHeaders ==
    {"Access-Control-Allow-Origin", "Access-Control-Allow-Methods",
     "Access-Control-Allow-Headers", "Access-Control-Expose-Headers", "Vary"}

\* the request at hand takes the branch that calls the upstream handler
Forwarded == request.method # "OPTIONS"

\* C16: for a request whose method is not OPTIONS the upstream handler is
\* invoked exactly once, and the response returned has the upstream's status,
\* statusText and body, the upstream's value for every header other than
\* Access-Control-Allow-Origin, -Methods, -Headers, -Expose-Headers and Vary,
\* and no Access-Control-Max-Age of the handler's own.
C16_ForwardFrame ==
    Forwarded =>
        /\ pc = "fetch" => upstreamCalls = 0
        /\ pc \in {"awaiting", "responded", "rejected"} => upstreamCalls = 1
        /\ Responded =>
              /\ response.status = upstream.status
              /\ response.statusText = upstream.statusText
              /\ response.body = upstream.body
              /\ \A h \in HeaderNames \ RewrittenHeaders :
                    response.headers[h] = upstream.headers[h]
              /\ response.headers["Access-Control-Max-Age"] =
                    upstream.headers["Access-Control-Max-Age"]

\* a GET answered by the upstream with 304 and its own Max-Age and Vary: the
\* response keeps status, body and Max-Age while Vary is rewritten
C16_Witness ==
    /\ Responded
    /\ request.method = "GET"
    /\ upstreamCalls = 1
    /\ upstream.status = 304
    /\ response.status = 304
    /\ response.body = null
    /\ upstream.headers["Access-Control-Max-Age"] = <<"6", "0", "0">>
    /\ response.headers["Access-Control-Max-Age"] = <<"6", "0", "0">>
    /\ upstream.headers["Vary"] = <<"A", "c", "c", "e", "p", "t">>
    /\ response.headers["Vary"] = <<"O", "r", "i", "g", "i", "n">>

=============================================================================
